---- MODULE Spec2Model ----
(***************************************************************************)
(* Extension-payload layer of the visual script runtime                    *)
(* (VisualScriptNodeUserData.h): the four NodeUserData_* payload variants  *)
(* with their Serialize / Deserialize / ToString functions, the per-tag    *)
(* table s_TypeToUserDataContexts, and GetUserDataContext.                 *)
(*                                                                         *)
(* Strings are TLA+ strings (\o is Append).  A stream is the sequence of   *)
(* values still to be read: operator<< appends an item, operator>> takes   *)
(* the head.  Pointers are handles: a type pointer is the index of the     *)
(* type in the registry (0 is nullptr), a property pointer names the       *)
(* owning type, the list it was found in and its position in that list.    *)
(***************************************************************************)
EXTENDS Integers, Sequences, FiniteSets, TLC

VARIABLES
  ptrSize,                \* sizeof(void*) of the build: 4 (EZ_PLATFORM_32BIT) or 8
  stream,                 \* inout_stream: the items written and not yet read
  inout_pAdditionalData,  \* the arena cursor, as a byte offset into the arena
  arena,                  \* the records placed so far, in placement order
  ref_node,               \* the user data reference held by the node being loaded
  log,                    \* the messages given to ezLog::Error, in order
  pendingNode,            \* the node whose payload is in the stream (tag, nodeDesc)
  pc,                     \* "idle", "saved", "aborted" (a load failed), "crashed"
  call                    \* the last call made through the table and what it returned

vars == <<ptrSize, stream, inout_pAdditionalData, arena, ref_node, log, pendingNode, pc, call>>

----------------------------------------------------------------------------
(* Bounds of the model *)

\* number of payload records one load places into the arena
MaxNodes == 2
\* the arena cursor starts at any offset in 0..MaxBase
MaxBase == 1

----------------------------------------------------------------------------
(* ezResult *)

EZ_SUCCESS == "EZ_SUCCESS"
EZ_FAILURE == "EZ_FAILURE"

nullptr == 0

Max(a, b) == IF a >= b THEN a ELSE b

----------------------------------------------------------------------------
(* The reflection registry the lookups run against (ezRTTI).  Foo has a    *)
(* property and two functions called Bar; Size is a property only; Light   *)
(* has no functions.                                                       *)

Registry ==
  << [name |-> "Foo",   props |-> <<"Size", "Bar">>, funcs |-> <<"Run", "Bar", "Bar">>],
     [name |-> "Light", props |-> <<"Bar">>,         funcs |-> <<>>] >>

\* ezRTTI::FindTypeByName: the type registered under the name, or nullptr
FindTypeByName(sTypeName) ==
  LET found == {i \in 1..Len(Registry) : Registry[i].name = sTypeName}
  IN  IF found = {} THEN nullptr ELSE CHOOSE i \in found : TRUE

GetTypeName(pType) == Registry[pType].name
GetFunctions(pType) == Registry[pType].funcs
GetProperties(pType) == Registry[pType].props

NullProperty == [owner |-> nullptr, list |-> "none", index |-> 0]

----------------------------------------------------------------------------
(* Enumerations carried by the payloads.  Values are the enum's integers;  *)
(* the stream stores the integer, the label shows the value's name.        *)

ComparisonOperatorNames ==
  <<"Equal", "NotEqual", "Less", "LessEqual", "GreaterThan", "GreaterEqual">>

CoroutineCreationModeNames == <<"StopOther", "DontCreateNew", "AllowOverlap">>

\* ezReflectionUtils::EnumerationToString(..., EnumConversionMode::ValueNameOnly)
EnumerationToString(names, value) == names[value + 1]

\* sizeof(ezEnum<E>) = sizeof(E::StorageType)
EnumStorageSize == 1

----------------------------------------------------------------------------
(* Record layout: sizeof and alignment of each payload struct, computed    *)
(* from its members for a given pointer size.  A member is [size, align];  *)
(* a base class is the first member, with its own size and alignment.      *)

AlignUp(offset, alignment) == ((offset + alignment - 1) \div alignment) * alignment

Field(size) == [size |-> size, align |-> size]

RECURSIVE EndOffset(_)
EndOffset(members) ==
  IF members = <<>> THEN 0
  ELSE LET n == Len(members)
           m == members[n]
       IN  AlignUp(EndOffset(SubSeq(members, 1, n - 1)), m.align) + m.size

RECURSIVE MaxAlign(_)
MaxAlign(members) ==
  IF members = <<>> THEN 1
  ELSE Max(Head(members).align, MaxAlign(Tail(members)))

StructSize(members) == AlignUp(EndOffset(members), MaxAlign(members))
StructAlign(members) == MaxAlign(members)

\* the explicit m_uiPadding member, present under EZ_PLATFORM_32BIT only
Padding32(ptr) == IF ptr = 4 THEN <<Field(4)>> ELSE <<>>

Members_Type(ptr) == <<Field(ptr)>> \o Padding32(ptr)

BaseType(ptr) ==
  [size |-> StructSize(Members_Type(ptr)), align |-> StructAlign(Members_Type(ptr))]

Members_TypeAndProperty(ptr) == <<BaseType(ptr), Field(ptr)>> \o Padding32(ptr)

Members_Comparison(ptr) == <<Field(EnumStorageSize)>>

Members_StartCoroutine(ptr) == <<BaseType(ptr), Field(EnumStorageSize)>>

Members(variant, ptr) ==
  CASE variant = "Type"            -> Members_Type(ptr)
    [] variant = "TypeAndProperty" -> Members_TypeAndProperty(ptr)
    [] variant = "Comparison"      -> Members_Comparison(ptr)
    [] variant = "StartCoroutine"  -> Members_StartCoroutine(ptr)

SizeOf(variant, ptr) == StructSize(Members(variant, ptr))
AlignmentOf(variant, ptr) == StructAlign(Members(variant, ptr))

----------------------------------------------------------------------------
(* ezVisualScriptNodeDescription: the authoring fields the payloads use *)

NodeDesc(sType, sProperty, compOp, mode) ==
  [m_sTargetTypeName       |-> sType,
   m_sTargetPropertyName   |-> sProperty,
   m_ComparisonOperator    |-> compOp,
   m_CoroutineCreationMode |-> mode]

IsEmpty(s) == s = ""

----------------------------------------------------------------------------
(* ezStreamWriter / ezStreamReader *)

\* operator<< for a string: one length-prefixed string item
StringItem(s) == [kind |-> "string", length |-> Len(s), value |-> s]

\* operator<< for an ezEnum: the value in the enum's storage type
EnumItem(v) ==
  [kind |-> "uint", bits |-> 8 * EnumStorageSize, value |-> v % (2 ^ (8 * EnumStorageSize))]

Write(s, item) == Append(s, item)

----------------------------------------------------------------------------
(* Node::SetUserData(userData, inout_pAdditionalData): places the record   *)
(* at the next offset of the arena that has the record's alignment, sets   *)
(* the node's reference to it and moves the cursor behind it.  A load      *)
(* environment e is [stream, cursor, arena, node, log].                    *)

NoUserData == [m_UserDataOffset |-> -1, m_UserDataByteSize |-> 0]

SetUserData(e, userData, variant) ==
  LET size   == SizeOf(variant, ptrSize)
      align  == AlignmentOf(variant, ptrSize)
      offset == AlignUp(e.cursor, align)
  IN  [e EXCEPT
         !.arena  = Append(@, [offset |-> offset, size |-> size,
                               variant |-> variant, data |-> userData]),
         !.node   = [m_UserDataOffset |-> offset, m_UserDataByteSize |-> size],
         !.cursor = offset + size]

----------------------------------------------------------------------------
(* struct NodeUserData_Type *)

NodeUserData_Type_Serialize(nodeDesc, s) ==
  [result          |-> EZ_SUCCESS,
   stream          |-> Write(s, StringItem(nodeDesc.m_sTargetTypeName)),
   out_uiSize      |-> SizeOf("Type", ptrSize),
   out_uiAlignment |-> AlignmentOf("Type", ptrSize)]

ReadType(e) ==
  LET sTypeName == Head(e.stream).value
      pType     == FindTypeByName(sTypeName)
      e1        == [e EXCEPT !.stream = Tail(@)]
  IN  IF pType = nullptr
      THEN [result |-> EZ_FAILURE, out_pType |-> pType,
            e |-> [e1 EXCEPT !.log = Append(@, "Unknown type '" \o sTypeName \o "'")]]
      ELSE [result |-> EZ_SUCCESS, out_pType |-> pType, e |-> e1]

\* as NodeUserData_Type_Deserialize, with SetUserData called before the
\* result of ReadType is looked at
NodeUserData_Type_Deserialize_PlacesFirst(e) ==
  LET rt == ReadType(e)
  IN  [result |-> rt.result,
       e |-> SetUserData(rt.e, [m_pType |-> rt.out_pType], "Type")]

NodeUserData_Type_Deserialize(e) ==
  LET rt == ReadType(e)
  IN  IF rt.result = EZ_FAILURE
      THEN [result |-> EZ_FAILURE, e |-> rt.e]
      ELSE [result |-> EZ_SUCCESS,
            e |-> SetUserData(rt.e, [m_pType |-> rt.out_pType], "Type")]

NodeUserData_Type_ToString(nodeDesc, out_sResult) ==
  IF IsEmpty(nodeDesc.m_sTargetTypeName) = FALSE
  THEN out_sResult \o nodeDesc.m_sTargetTypeName
  ELSE out_sResult

----------------------------------------------------------------------------
(* struct NodeUserData_TypeAndProperty : NodeUserData_Type *)

\* as NodeUserData_TypeAndProperty_Serialize, with the property name written
\* before the base class writes the type name
NodeUserData_TypeAndProperty_Serialize_PropertyFirst(nodeDesc, s) ==
  LET base == NodeUserData_Type_Serialize(
                nodeDesc, Write(s, StringItem(nodeDesc.m_sTargetPropertyName)))
  IN  IF base.result = EZ_FAILURE THEN base
      ELSE [result          |-> EZ_SUCCESS,
            stream          |-> base.stream,
            out_uiSize      |-> SizeOf("TypeAndProperty", ptrSize),
            out_uiAlignment |-> AlignmentOf("TypeAndProperty", ptrSize)]

NodeUserData_TypeAndProperty_Serialize(nodeDesc, s) ==
  LET base == NodeUserData_Type_Serialize(nodeDesc, s)
  IN  IF base.result = EZ_FAILURE THEN base
      ELSE [result          |-> EZ_SUCCESS,
            stream          |-> Write(base.stream, StringItem(nodeDesc.m_sTargetPropertyName)),
            out_uiSize      |-> SizeOf("TypeAndProperty", ptrSize),
            out_uiAlignment |-> AlignmentOf("TypeAndProperty", ptrSize)]

\* as FirstMatch, with the loop running on after a match (no break), so
\* that the last element with the name is kept
FirstMatch_NoBreak(properties, list, pType, sPropName) ==
  LET hits == {i \in 1..Len(properties) : sPropName = properties[i]}
  IN  IF hits = {} THEN NullProperty
      ELSE [owner |-> pType, list |-> list,
            index |-> CHOOSE i \in hits : \A j \in hits : i >= j]

\* the first element of the list whose name equals sPropName, or nullptr
FirstMatch(properties, list, pType, sPropName) ==
  LET hits == {i \in 1..Len(properties) : sPropName = properties[i]}
  IN  IF hits = {} THEN NullProperty
      ELSE [owner |-> pType, list |-> list,
            index |-> CHOOSE i \in hits : \A j \in hits : i <= j]

\* as ReadProperty, with the two words of the message exchanged
ReadProperty_WordsExchanged(e, pType, properties, list) ==
  LET sPropName == Head(e.stream).value
      pProp     == FirstMatch(properties, list, pType, sPropName)
      e1        == [e EXCEPT !.stream = Tail(@)]
  IN  IF pProp = NullProperty
      THEN [result |-> EZ_FAILURE, out_pProp |-> pProp,
            e |-> [e1 EXCEPT !.log = Append(@,
                     (IF list = "funcs" THEN "Property" ELSE "Function")
                       \o " '" \o sPropName \o "' not found on type '"
                       \o GetTypeName(pType) \o "'")]]
      ELSE [result |-> EZ_SUCCESS, out_pProp |-> pProp, e |-> e1]

\* list is "funcs" for T = ezAbstractFunctionProperty, "props" otherwise
ReadProperty(e, pType, properties, list) ==
  LET sPropName == Head(e.stream).value
      pProp     == FirstMatch(properties, list, pType, sPropName)
      e1        == [e EXCEPT !.stream = Tail(@)]
  IN  IF pProp = NullProperty
      THEN [result |-> EZ_FAILURE, out_pProp |-> pProp,
            e |-> [e1 EXCEPT !.log = Append(@,
                     (IF list = "funcs" THEN "Function" ELSE "Property")
                       \o " '" \o sPropName \o "' not found on type '"
                       \o GetTypeName(pType) \o "'")]]
      ELSE [result |-> EZ_SUCCESS, out_pProp |-> pProp, e |-> e1]

\* as NodeUserData_TypeAndProperty_Deserialize, with the member name taken
\* from the stream before the result of ReadType is looked at
NodeUserData_TypeAndProperty_Deserialize_ReadsAhead(PropIsFunction, e) ==
  LET rt == ReadType(e)
  IN  IF rt.result = EZ_FAILURE
      THEN [result |-> EZ_FAILURE, e |-> [rt.e EXCEPT !.stream = Tail(@)]]
      ELSE LET rp == IF PropIsFunction
                     THEN ReadProperty(rt.e, rt.out_pType, GetFunctions(rt.out_pType), "funcs")
                     ELSE ReadProperty(rt.e, rt.out_pType, GetProperties(rt.out_pType), "props")
           IN  IF rp.result = EZ_FAILURE
               THEN [result |-> EZ_FAILURE, e |-> rp.e]
               ELSE [result |-> EZ_SUCCESS,
                     e |-> SetUserData(rp.e,
                             [m_pType |-> rt.out_pType, m_pProperty |-> rp.out_pProp],
                             "TypeAndProperty")]

NodeUserData_TypeAndProperty_Deserialize(PropIsFunction, e) ==
  LET rt == ReadType(e)
  IN  IF rt.result = EZ_FAILURE
      THEN [result |-> EZ_FAILURE, e |-> rt.e]
      ELSE LET rp == IF PropIsFunction
                     THEN ReadProperty(rt.e, rt.out_pType, GetFunctions(rt.out_pType), "funcs")
                     ELSE ReadProperty(rt.e, rt.out_pType, GetProperties(rt.out_pType), "props")
           IN  IF rp.result = EZ_FAILURE
               THEN [result |-> EZ_FAILURE, e |-> rp.e]
               ELSE [result |-> EZ_SUCCESS,
                     e |-> SetUserData(rp.e,
                             [m_pType |-> rt.out_pType, m_pProperty |-> rp.out_pProp],
                             "TypeAndProperty")]

\* as NodeUserData_TypeAndProperty_ToString, without the IsEmpty test of the
\* property name
NodeUserData_TypeAndProperty_ToString_NoEmptyTest(nodeDesc, out_sResult) ==
  LET s1 == NodeUserData_Type_ToString(nodeDesc, out_sResult)
  IN  s1 \o "." \o nodeDesc.m_sTargetPropertyName

NodeUserData_TypeAndProperty_ToString(nodeDesc, out_sResult) ==
  LET s1 == NodeUserData_Type_ToString(nodeDesc, out_sResult)
  IN  IF IsEmpty(nodeDesc.m_sTargetPropertyName) = FALSE
      THEN s1 \o "." \o nodeDesc.m_sTargetPropertyName
      ELSE s1

----------------------------------------------------------------------------
(* struct NodeUserData_Comparison *)

NodeUserData_Comparison_Serialize(nodeDesc, s) ==
  LET compOp == nodeDesc.m_ComparisonOperator
  IN  [result          |-> EZ_SUCCESS,
       stream          |-> Write(s, EnumItem(compOp)),
       out_uiSize      |-> SizeOf("Comparison", ptrSize),
       out_uiAlignment |-> AlignmentOf("Comparison", ptrSize)]

\* as NodeUserData_Comparison_Deserialize, with the cursor handed to
\* SetUserData by value, so that the caller's cursor stays where it was
NodeUserData_Comparison_Deserialize_CursorByValue(e) ==
  LET op == Head(e.stream).value
      e1 == [e EXCEPT !.stream = Tail(@)]
  IN  [result |-> EZ_SUCCESS,
       e |-> [SetUserData(e1, [m_ComparisonOperator |-> op], "Comparison")
                EXCEPT !.cursor = e1.cursor]]

NodeUserData_Comparison_Deserialize(e) ==
  LET op == Head(e.stream).value
      e1 == [e EXCEPT !.stream = Tail(@)]
  IN  [result |-> EZ_SUCCESS,
       e |-> SetUserData(e1, [m_ComparisonOperator |-> op], "Comparison")]

\* as NodeUserData_Comparison_ToString, with sCompOp appended alone
NodeUserData_Comparison_ToString_NoSpace(nodeDesc, out_sResult) ==
  LET sCompOp == EnumerationToString(ComparisonOperatorNames, nodeDesc.m_ComparisonOperator)
  IN  out_sResult \o sCompOp

NodeUserData_Comparison_ToString(nodeDesc, out_sResult) ==
  LET sCompOp == EnumerationToString(ComparisonOperatorNames, nodeDesc.m_ComparisonOperator)
  IN  out_sResult \o " " \o sCompOp

----------------------------------------------------------------------------
(* struct NodeUserData_StartCoroutine : NodeUserData_Type *)

NodeUserData_StartCoroutine_Serialize(nodeDesc, s) ==
  LET base == NodeUserData_Type_Serialize(nodeDesc, s)
  IN  IF base.result = EZ_FAILURE THEN base
      ELSE [result          |-> EZ_SUCCESS,
            stream          |-> Write(base.stream, EnumItem(nodeDesc.m_CoroutineCreationMode)),
            out_uiSize      |-> SizeOf("StartCoroutine", ptrSize),
            out_uiAlignment |-> AlignmentOf("StartCoroutine", ptrSize)]

\* as NodeUserData_StartCoroutine_Deserialize, without the read of
\* m_CreationMode, which keeps its default
NodeUserData_StartCoroutine_Deserialize_ModeNotRead(e) ==
  LET rt == ReadType(e)
  IN  IF rt.result = EZ_FAILURE
      THEN [result |-> EZ_FAILURE, e |-> rt.e]
      ELSE [result |-> EZ_SUCCESS,
            e |-> SetUserData(rt.e,
                    [m_pType |-> rt.out_pType, m_CreationMode |-> 0],
                    "StartCoroutine")]

NodeUserData_StartCoroutine_Deserialize(e) ==
  LET rt == ReadType(e)
  IN  IF rt.result = EZ_FAILURE
      THEN [result |-> EZ_FAILURE, e |-> rt.e]
      ELSE LET mode == Head(rt.e.stream).value
               e1   == [rt.e EXCEPT !.stream = Tail(@)]
           IN  [result |-> EZ_SUCCESS,
                e |-> SetUserData(e1,
                        [m_pType |-> rt.out_pType, m_CreationMode |-> mode],
                        "StartCoroutine")]

NodeUserData_StartCoroutine_ToString(nodeDesc, out_sResult) ==
  LET s1 == NodeUserData_Type_ToString(nodeDesc, out_sResult)
      sCreationMode ==
        EnumerationToString(CoroutineCreationModeNames, nodeDesc.m_CoroutineCreationMode)
  IN  s1 \o " " \o sCreationMode

----------------------------------------------------------------------------
(* ezVisualScriptNodeDescription::Type, in declaration order; the value of *)
(* a tag is its position in this list, counted from 0.                     *)

TypeNames ==
  << "Invalid", "EntryCall", "EntryCall_Coroutine", "MessageHandler",
     "MessageHandler_Coroutine", "ReflectedFunction", "InplaceCoroutine", "GetOwner",
     "FirstBuiltin",
     "Builtin_Branch", "Builtin_And", "Builtin_Or", "Builtin_Not", "Builtin_Compare",
     "Builtin_IsValid",
     "Builtin_Add", "Builtin_Subtract", "Builtin_Multiply", "Builtin_Divide",
     "Builtin_ToBool", "Builtin_ToByte", "Builtin_ToInt", "Builtin_ToInt64",
     "Builtin_ToFloat", "Builtin_ToDouble", "Builtin_ToString", "Builtin_ToVariant",
     "Builtin_Variant_ConvertTo",
     "Builtin_MakeArray",
     "Builtin_TryGetComponentOfBaseType",
     "Builtin_StartCoroutine", "Builtin_StopCoroutine", "Builtin_StopAllCoroutines",
     "Builtin_WaitForAll", "Builtin_WaitForAny", "Builtin_Yield",
     "LastBuiltin" >>

\* ezVisualScriptNodeDescription::Type::Count
Count == 37

Tags == 0..(Count - 1)

Tag(name) == CHOOSE t \in 0..(Len(TypeNames) - 1) : TypeNames[t + 1] = name

----------------------------------------------------------------------------
(* struct UserDataContext and the table.  A function pointer is the name   *)
(* of the function it points to; NullFunc is nullptr.                      *)

NullFunc == "nullptr"

\* {} : all three members keep their default, nullptr
NoContext ==
  [m_SerializeFunc |-> NullFunc, m_DeserializeFunc |-> NullFunc, m_ToStringFunc |-> NullFunc]

Context(serialize, deserialize, toString) ==
  [m_SerializeFunc |-> serialize, m_DeserializeFunc |-> deserialize, m_ToStringFunc |-> toString]

TypeAndPropertyContext ==
  Context("NodeUserData_TypeAndProperty::Serialize",
          "NodeUserData_TypeAndProperty::Deserialize<true>",
          "NodeUserData_TypeAndProperty::ToString")

ComparisonContext ==
  Context("NodeUserData_Comparison::Serialize",
          "NodeUserData_Comparison::Deserialize",
          "NodeUserData_Comparison::ToString")

TypeContext ==
  Context("NodeUserData_Type::Serialize",
          "NodeUserData_Type::Deserialize",
          "NodeUserData_Type::ToString")

\* as StartCoroutineContext, with the deserialize member taken from the row
\* above it
StartCoroutineContext_TypeDeserialize ==
  Context("NodeUserData_StartCoroutine::Serialize",
          "NodeUserData_Type::Deserialize",
          "NodeUserData_StartCoroutine::ToString")

StartCoroutineContext ==
  Context("NodeUserData_StartCoroutine::Serialize",
          "NodeUserData_StartCoroutine::Deserialize",
          "NodeUserData_StartCoroutine::ToString")

\* as s_TypeToUserDataContexts, with the row of InplaceCoroutine repeated
\* for GetOwner
s_TypeToUserDataContexts_GetOwnerRow ==
  [i \in 1..Len(TypeNames) |->
     CASE TypeNames[i] \in {"ReflectedFunction", "InplaceCoroutine", "GetOwner"} ->
            TypeAndPropertyContext
       [] TypeNames[i] = "Builtin_Compare" -> ComparisonContext
       [] TypeNames[i] = "Builtin_TryGetComponentOfBaseType" -> TypeContext
       [] TypeNames[i] = "Builtin_StartCoroutine" -> StartCoroutineContext
       [] OTHER -> NoContext]

s_TypeToUserDataContexts ==
  << NoContext,               \* Invalid
     NoContext,               \* EntryCall
     NoContext,               \* EntryCall_Coroutine
     NoContext,               \* MessageHandler
     NoContext,               \* MessageHandler_Coroutine
     TypeAndPropertyContext,  \* ReflectedFunction
     TypeAndPropertyContext,  \* InplaceCoroutine
     NoContext,               \* GetOwner
     NoContext,               \* FirstBuiltin
     NoContext,               \* Builtin_Branch
     NoContext,               \* Builtin_And
     NoContext,               \* Builtin_Or
     NoContext,               \* Builtin_Not
     ComparisonContext,       \* Builtin_Compare
     NoContext,               \* Builtin_IsValid
     NoContext,               \* Builtin_Add
     NoContext,               \* Builtin_Subtract
     NoContext,               \* Builtin_Multiply
     NoContext,               \* Builtin_Divide
     NoContext,               \* Builtin_ToBool
     NoContext,               \* Builtin_ToByte
     NoContext,               \* Builtin_ToInt
     NoContext,               \* Builtin_ToInt64
     NoContext,               \* Builtin_ToFloat
     NoContext,               \* Builtin_ToDouble
     NoContext,               \* Builtin_ToString
     NoContext,               \* Builtin_ToVariant
     NoContext,               \* Builtin_Variant_ConvertTo
     NoContext,               \* Builtin_MakeArray
     TypeContext,             \* Builtin_TryGetComponentOfBaseType
     StartCoroutineContext,   \* Builtin_StartCoroutine
     NoContext,               \* Builtin_StopCoroutine
     NoContext,               \* Builtin_StopAllCoroutines
     NoContext,               \* Builtin_WaitForAll
     NoContext,               \* Builtin_WaitForAny
     NoContext,               \* Builtin_Yield
     NoContext >>             \* LastBuiltin

\* EZ_ARRAY_SIZE(s_TypeToUserDataContexts)
ArraySize == Len(s_TypeToUserDataContexts)

\* as GetUserDataContext, indexing the table from 1
GetUserDataContext_IndexFromOne(nodeType) ==
  s_TypeToUserDataContexts[Max(nodeType, 1)]

GetUserDataContext(nodeType) == s_TypeToUserDataContexts[nodeType + 1]

----------------------------------------------------------------------------
(* A call through a function pointer runs the function it points to *)

InvokeSerialize(func, nodeDesc, s) ==
  CASE func = "NodeUserData_Type::Serialize" ->
         NodeUserData_Type_Serialize(nodeDesc, s)
    [] func = "NodeUserData_TypeAndProperty::Serialize" ->
         NodeUserData_TypeAndProperty_Serialize(nodeDesc, s)
    [] func = "NodeUserData_Comparison::Serialize" ->
         NodeUserData_Comparison_Serialize(nodeDesc, s)
    [] func = "NodeUserData_StartCoroutine::Serialize" ->
         NodeUserData_StartCoroutine_Serialize(nodeDesc, s)

InvokeDeserialize(func, e) ==
  CASE func = "NodeUserData_Type::Deserialize" ->
         NodeUserData_Type_Deserialize(e)
    [] func = "NodeUserData_TypeAndProperty::Deserialize<true>" ->
         NodeUserData_TypeAndProperty_Deserialize(TRUE, e)
    [] func = "NodeUserData_TypeAndProperty::Deserialize<false>" ->
         NodeUserData_TypeAndProperty_Deserialize(FALSE, e)
    [] func = "NodeUserData_Comparison::Deserialize" ->
         NodeUserData_Comparison_Deserialize(e)
    [] func = "NodeUserData_StartCoroutine::Deserialize" ->
         NodeUserData_StartCoroutine_Deserialize(e)

InvokeToString(func, nodeDesc, out_sResult) ==
  CASE func = "NodeUserData_Type::ToString" ->
         NodeUserData_Type_ToString(nodeDesc, out_sResult)
    [] func = "NodeUserData_TypeAndProperty::ToString" ->
         NodeUserData_TypeAndProperty_ToString(nodeDesc, out_sResult)
    [] func = "NodeUserData_Comparison::ToString" ->
         NodeUserData_Comparison_ToString(nodeDesc, out_sResult)
    [] func = "NodeUserData_StartCoroutine::ToString" ->
         NodeUserData_StartCoroutine_ToString(nodeDesc, out_sResult)

----------------------------------------------------------------------------
(* Inputs *)

TypeNameInputs == {"", "Foo", "Nonexistent"}
PropertyNameInputs == {"", "Bar", "Size", "DoesNotExist"}
ComparisonInputs == {0, 4}
CreationModeInputs == {0, 2}
\* what the string builder handed to ToString already holds
LabelInputs == {"", "Node: "}

NodeDescs ==
  {NodeDesc(t, p, c, m) : t \in TypeNameInputs, p \in PropertyNameInputs,
                          c \in ComparisonInputs, m \in CreationModeInputs}

NoNode == [tag |-> -1]

----------------------------------------------------------------------------
(* The state after construction: nothing written, nothing placed.  The     *)
(* arena cursor starts wherever the graph's own data ended.                *)

Init ==
  /\ ptrSize \in {4, 8}
  /\ stream = <<>>
  /\ inout_pAdditionalData \in 0..MaxBase
  /\ arena = <<>>
  /\ ref_node = NoUserData
  /\ log = <<>>
  /\ pendingNode = NoNode
  /\ pc = "idle"
  /\ call = [op |-> "none"]

----------------------------------------------------------------------------
(* Calls through the table.  Save writes one node's payload to the stream, *)
(* load reads it back for the same tag; a failed load ends the graph load. *)

\* GetUserDataContext(tag).m_SerializeFunc(nodeDesc, stream, size, alignment)
CallSerialize(tag) ==
  LET ctx == GetUserDataContext(tag)
  IN  /\ pc = "idle"
      /\ Len(arena) < MaxNodes
      /\ ctx.m_SerializeFunc /= NullFunc
      /\ \E nodeDesc \in NodeDescs :
           LET r == InvokeSerialize(ctx.m_SerializeFunc, nodeDesc, stream)
           IN  /\ stream' = r.stream
               /\ call' = [op |-> "Serialize", tag |-> tag, ctx |-> ctx,
                           nodeDesc |-> nodeDesc, result |-> r.result,
                           streamBefore |-> stream, out_uiSize |-> r.out_uiSize,
                           out_uiAlignment |-> r.out_uiAlignment]
               /\ pendingNode' = [tag |-> tag, nodeDesc |-> nodeDesc]
      /\ pc' = "saved"
      /\ UNCHANGED <<ptrSize, inout_pAdditionalData, arena, ref_node, log>>

\* GetUserDataContext(tag).m_DeserializeFunc(node, stream, pAdditionalData)
CallDeserialize ==
  LET tag == pendingNode.tag
      ctx == GetUserDataContext(tag)
      e   == [stream |-> stream, cursor |-> inout_pAdditionalData, arena |-> arena,
              node |-> NoUserData, log |-> log]
  IN  /\ pc = "saved"
      /\ ctx.m_DeserializeFunc /= NullFunc
      /\ LET r == InvokeDeserialize(ctx.m_DeserializeFunc, e)
         IN  /\ stream' = r.e.stream
             /\ inout_pAdditionalData' = r.e.cursor
             /\ arena' = r.e.arena
             /\ ref_node' = r.e.node
             /\ log' = r.e.log
             /\ pc' = IF r.result = EZ_SUCCESS THEN "idle" ELSE "aborted"
             /\ call' = [op |-> "Deserialize", tag |-> tag, ctx |-> ctx,
                         nodeDesc |-> pendingNode.nodeDesc, result |-> r.result,
                         before |-> e]
      /\ pendingNode' = NoNode
      /\ UNCHANGED ptrSize

\* GetUserDataContext(tag).m_ToStringFunc(nodeDesc, sResult)
CallToString(tag) ==
  LET ctx == GetUserDataContext(tag)
  IN  /\ pc = "idle"
      /\ ctx.m_ToStringFunc /= NullFunc
      /\ \E nodeDesc \in NodeDescs, sResult \in LabelInputs :
           call' = [op |-> "ToString", tag |-> tag, ctx |-> ctx, nodeDesc |-> nodeDesc,
                    sBefore |-> sResult,
                    out_sResult |-> InvokeToString(ctx.m_ToStringFunc, nodeDesc, sResult)]
      /\ UNCHANGED <<ptrSize, stream, inout_pAdditionalData, arena, ref_node, log,
                     pendingNode, pc>>

\* The entry's member is nullptr: there is no function to run, and a call
\* through it ends the program before anything is written or read.
NullCall(op, tag) ==
  LET ctx == GetUserDataContext(tag)
      func == CASE op = "Serialize"   -> ctx.m_SerializeFunc
                [] op = "Deserialize" -> ctx.m_DeserializeFunc
                [] op = "ToString"    -> ctx.m_ToStringFunc
  IN  /\ pc = "idle"
      /\ func = NullFunc
      /\ call' = [op |-> op, tag |-> tag, ctx |-> ctx, result |-> "NullCall"]
      /\ pc' = "crashed"
      /\ UNCHANGED <<ptrSize, stream, inout_pAdditionalData, arena, ref_node, log,
                     pendingNode>>

Operations == {"Serialize", "Deserialize", "ToString"}

\* saving and loading a graph's nodes
Next ==
  \/ \E tag \in Tags : CallSerialize(tag)
  \/ CallDeserialize
  \/ \E op \in Operations, tag \in Tags : NullCall(op, tag)

Spec == Init /\ [][Next]_vars

\* describing authoring nodes
NextDescribe ==
  \/ \E tag \in Tags : CallToString(tag)
  \/ \E op \in Operations, tag \in Tags : NullCall(op, tag)

SpecDescribe == Init /\ [][NextDescribe]_vars

----------------------------------------------------------------------------
(* Vocabulary of the properties *)

\* the payload variant each tag is meant to carry
PayloadVariant(tag) ==
  LET name == TypeNames[tag + 1]
  IN  CASE name \in {"ReflectedFunction", "InplaceCoroutine"} -> "TypeAndProperty"
        [] name = "Builtin_Compare"                           -> "Comparison"
        [] name = "Builtin_TryGetComponentOfBaseType"         -> "Type"
        [] name = "Builtin_StartCoroutine"                    -> "StartCoroutine"
        [] OTHER                                              -> "None"

EmbedsType(variant) == variant \in {"Type", "TypeAndProperty", "StartCoroutine"}

TypeRegistered(sName) == \E i \in 1..Len(Registry) : Registry[i].name = sName

\* the type registered under sName has a function called sMember
FunctionPresent(sName, sMember) ==
  \E i \in 1..Len(Registry) :
    /\ Registry[i].name = sName
    /\ \E k \in 1..Len(Registry[i].funcs) : Registry[i].funcs[k] = sMember

Loaded == call.op = "Deserialize" /\ call.result /= "NullCall"
Saved == call.op = "Serialize" /\ call.result /= "NullCall"
Described == call.op = "ToString" /\ "out_sResult" \in DOMAIN call

\* every name the node's variant refers to is in the registry
NamesPresent(variant, nodeDesc) ==
  /\ EmbedsType(variant) => TypeRegistered(nodeDesc.m_sTargetTypeName)
  /\ variant = "TypeAndProperty" =>
       FunctionPresent(nodeDesc.m_sTargetTypeName, nodeDesc.m_sTargetPropertyName)

\* the record holds the resolved equivalents of the authoring fields
ResolvedFrom(variant, data, nodeDesc) ==
  /\ EmbedsType(variant) =>
       /\ data.m_pType \in 1..Len(Registry)
       /\ Registry[data.m_pType].name = nodeDesc.m_sTargetTypeName
  /\ variant = "TypeAndProperty" =>
       /\ data.m_pProperty.owner = data.m_pType
       /\ data.m_pProperty.list = "funcs"
       /\ data.m_pProperty.index \in 1..Len(Registry[data.m_pType].funcs)
       /\ Registry[data.m_pType].funcs[data.m_pProperty.index]
            = nodeDesc.m_sTargetPropertyName
  /\ variant = "Comparison" => data.m_ComparisonOperator = nodeDesc.m_ComparisonOperator
  /\ variant = "StartCoroutine" => data.m_CreationMode = nodeDesc.m_CoroutineCreationMode

----------------------------------------------------------------------------
\* C1: Round trip.  For every payload variant and every authoring node
\* description whose type name and member name are in the registry,
\* Deserialize on the bytes Serialize wrote succeeds and places one record
\* whose fields are the resolved equivalents of the authoring fields: m_pType
\* is the type registered under the type name, m_pProperty the member of that
\* type with the member name, the operator and the creation mode as authored.
C1_RoundTrip ==
  (Loaded /\ NamesPresent(PayloadVariant(call.tag), call.nodeDesc)) =>
     /\ call.result = EZ_SUCCESS
     /\ stream = <<>>
     /\ Len(arena) = Len(call.before.arena) + 1
     /\ arena[Len(arena)].variant = PayloadVariant(call.tag)
     /\ ResolvedFrom(PayloadVariant(call.tag), arena[Len(arena)].data, call.nodeDesc)
     /\ ref_node.m_UserDataOffset = arena[Len(arena)].offset

C1_Witness ==
  /\ Loaded
  /\ call.tag = Tag("ReflectedFunction")
  /\ call.nodeDesc.m_sTargetTypeName = "Foo"
  /\ call.nodeDesc.m_sTargetPropertyName = "Bar"
  /\ call.result = EZ_SUCCESS
  /\ arena[Len(arena)].data.m_pProperty.index = 2

\* C2: A failed Deserialize leaves the arena untouched.  For the variants
\* that embed a type, a stream whose type name is not registered makes
\* Deserialize fail; and whenever a Deserialize fails the arena cursor has the
\* value it had before the call, nothing was placed, and the node has no
\* user data.
C2_FailedDeserializeLeavesArena ==
  Loaded =>
     /\ (EmbedsType(PayloadVariant(call.tag))
          /\ ~TypeRegistered(call.nodeDesc.m_sTargetTypeName)) => call.result = EZ_FAILURE
     /\ call.result = EZ_FAILURE =>
          /\ inout_pAdditionalData = call.before.cursor
          /\ arena = call.before.arena
          /\ ref_node = NoUserData

C2_Witness ==
  /\ Loaded
  /\ call.tag = Tag("Builtin_StartCoroutine")
  /\ call.nodeDesc.m_sTargetTypeName = "Nonexistent"
  /\ call.result = EZ_FAILURE
  /\ call.before.cursor = 1

\* the type resolves and the member is not in the searched list
MemberUnresolved ==
  /\ Loaded
  /\ PayloadVariant(call.tag) = "TypeAndProperty"
  /\ TypeRegistered(call.nodeDesc.m_sTargetTypeName)
  /\ ~FunctionPresent(call.nodeDesc.m_sTargetTypeName, call.nodeDesc.m_sTargetPropertyName)

\* what the same Deserialize returns to its caller when the type is unknown
ResultOnUnresolvedType ==
  NodeUserData_TypeAndProperty_Deserialize(TRUE,
    [call.before EXCEPT !.stream = <<StringItem("Nonexistent"), StringItem("Bar")>>]).result

----------------------------------------------------------------------------
\* the three functions of a payload variant, by name
VariantContext(variant) ==
  CASE variant = "Type" ->
         [m_SerializeFunc   |-> "NodeUserData_Type::Serialize",
          m_DeserializeFunc |-> "NodeUserData_Type::Deserialize",
          m_ToStringFunc    |-> "NodeUserData_Type::ToString"]
    [] variant = "TypeAndProperty" ->
         [m_SerializeFunc   |-> "NodeUserData_TypeAndProperty::Serialize",
          m_DeserializeFunc |-> "NodeUserData_TypeAndProperty::Deserialize<true>",
          m_ToStringFunc    |-> "NodeUserData_TypeAndProperty::ToString"]
    [] variant = "Comparison" ->
         [m_SerializeFunc   |-> "NodeUserData_Comparison::Serialize",
          m_DeserializeFunc |-> "NodeUserData_Comparison::Deserialize",
          m_ToStringFunc    |-> "NodeUserData_Comparison::ToString"]
    [] variant = "StartCoroutine" ->
         [m_SerializeFunc   |-> "NodeUserData_StartCoroutine::Serialize",
          m_DeserializeFunc |-> "NodeUserData_StartCoroutine::Deserialize",
          m_ToStringFunc    |-> "NodeUserData_StartCoroutine::ToString"]

AllNull(ctx) ==
  /\ ctx.m_SerializeFunc = NullFunc
  /\ ctx.m_DeserializeFunc = NullFunc
  /\ ctx.m_ToStringFunc = NullFunc

NoneNull(ctx) ==
  /\ ctx.m_SerializeFunc /= NullFunc
  /\ ctx.m_DeserializeFunc /= NullFunc
  /\ ctx.m_ToStringFunc /= NullFunc

Called == call.op /= "none"

\* C4 as stated: the table has one entry per tag, and for every tag the entry
\* GetUserDataContext returns has a serialize, a deserialize and a describe
\* operation that are all non-null.
C4_EveryEntryNonNull ==
  /\ ArraySize = Count
  /\ Called => (call.ctx = s_TypeToUserDataContexts[call.tag + 1] /\ NoneNull(call.ctx))

\* C4 as amended: the table has exactly one entry per tag (its length is
\* Type::Count) and GetUserDataContext(t) returns the entry at index t; the
\* entry's three operations are all non-null exactly for the five tags that
\* carry a payload, where they are the Serialize, Deserialize and ToString of
\* that tag's own variant, and all three are nullptr for every other tag.
C4_DispatchTable ==
  /\ ArraySize = Count
  /\ Len(TypeNames) = Count
  /\ \A t \in Tags :
       /\ GetUserDataContext(t) = s_TypeToUserDataContexts[t + 1]
       /\ PayloadVariant(t) /= "None" =>
            /\ NoneNull(GetUserDataContext(t))
            /\ GetUserDataContext(t) = VariantContext(PayloadVariant(t))
       /\ PayloadVariant(t) = "None" => AllNull(GetUserDataContext(t))
  /\ Called => call.ctx = s_TypeToUserDataContexts[call.tag + 1]

C4_Witness ==
  /\ Saved
  /\ call.tag = Tag("Builtin_Compare")
  /\ call.ctx = ComparisonContext

\* C5 as stated: for a tag without a payload variant, calling the entry's
\* serialize succeeds, writes nothing and reports size 0, and calling its
\* deserialize succeeds.
C5_NoPayloadCallsSucceed ==
  (Called /\ PayloadVariant(call.tag) = "None" /\ call.op \in {"Serialize", "Deserialize"})
     => /\ call.result = EZ_SUCCESS
        /\ call.op = "Serialize" => call.out_uiSize = 0

\* C5 as amended: for every tag without a payload variant the entry's
\* serialize, deserialize and describe members are all nullptr, so there is
\* no operation to run: a call through the entry is a call through a null
\* pointer, and no code of the table writes to the stream, reports a size,
\* moves the arena cursor, places a record or appends to a label for it.
C5_NoPayloadEntriesNull ==
  [][ (call'.op /= "none" /\ PayloadVariant(call'.tag) = "None") =>
        /\ AllNull(call'.ctx)
        /\ call'.result = "NullCall"
        /\ UNCHANGED <<stream, inout_pAdditionalData, arena, ref_node, log>> ]_vars

C5_Witness ==
  /\ call.op = "Serialize"
  /\ call.tag = Tag("GetOwner")
  /\ call.result = "NullCall"
  /\ pc = "crashed"

----------------------------------------------------------------------------
\* the fields a variant's stream holds, in order
StreamFields(variant, nodeDesc) ==
  CASE variant = "Type" ->
         <<StringItem(nodeDesc.m_sTargetTypeName)>>
    [] variant = "TypeAndProperty" ->
         <<StringItem(nodeDesc.m_sTargetTypeName), StringItem(nodeDesc.m_sTargetPropertyName)>>
    [] variant = "Comparison" ->
         <<EnumItem(nodeDesc.m_ComparisonOperator)>>
    [] variant = "StartCoroutine" ->
         <<StringItem(nodeDesc.m_sTargetTypeName), EnumItem(nodeDesc.m_CoroutineCreationMode)>>

\* C6: Stream layout.  Serialize writes exactly these fields in this order
\* and nothing else -- Type: type name; TypeAndProperty: type name, member
\* name; Comparison: operator; StartCoroutine: type name, creation mode -- so
\* the TypeAndProperty stream is the Type stream of the same record followed
\* by the property name and the StartCoroutine stream is the Type stream
\* followed by the creation mode; every Serialize returns success.
C6_StreamLayout ==
  Saved =>
    LET variant    == PayloadVariant(call.tag)
        typeStream == NodeUserData_Type_Serialize(call.nodeDesc, call.streamBefore).stream
    IN  /\ call.result = EZ_SUCCESS
        /\ stream = call.streamBefore \o StreamFields(variant, call.nodeDesc)
        /\ variant = "TypeAndProperty" =>
             stream = typeStream \o <<StringItem(call.nodeDesc.m_sTargetPropertyName)>>
        /\ variant = "StartCoroutine" =>
             stream = typeStream \o <<EnumItem(call.nodeDesc.m_CoroutineCreationMode)>>

C6_Witness ==
  /\ Saved
  /\ call.tag = Tag("InplaceCoroutine")
  /\ call.nodeDesc.m_sTargetTypeName = "Foo"
  /\ call.nodeDesc.m_sTargetPropertyName = "Bar"
  /\ Len(stream) = 2
  /\ stream[2].value = "Bar"

\* the record sizes the static_asserts state
AssertedSize(variant) ==
  CASE variant = "Type"            -> 8
    [] variant = "TypeAndProperty" -> 16
    [] variant = "StartCoroutine"  -> 16

\* C7: Platform-independent record size.  With a 4-byte pointer (the explicit
\* m_uiPadding members present) and with an 8-byte pointer (no padding
\* members) the struct layout gives the same total size for each variant that
\* embeds a type handle -- 8 for Type, 16 for TypeAndProperty, 16 for
\* StartCoroutine -- and Serialize reports exactly that size, the composite
\* variant's own, together with the record's alignment.
C7_RecordSizes ==
  (Saved /\ EmbedsType(PayloadVariant(call.tag))) =>
    LET variant == PayloadVariant(call.tag)
    IN  /\ SizeOf(variant, 4) = AssertedSize(variant)
        /\ SizeOf(variant, 8) = AssertedSize(variant)
        /\ call.out_uiSize = AssertedSize(variant)
        /\ call.out_uiAlignment = AlignmentOf(variant, ptrSize)

\* the label a variant adds for a node description
Label(variant, nodeDesc) ==
  CASE variant = "Type" ->
         nodeDesc.m_sTargetTypeName
    [] variant = "TypeAndProperty" ->
         nodeDesc.m_sTargetTypeName
           \o (IF nodeDesc.m_sTargetPropertyName = "" THEN ""
               ELSE "." \o nodeDesc.m_sTargetPropertyName)
    [] variant = "Comparison" ->
         " " \o ComparisonOperatorNames[nodeDesc.m_ComparisonOperator + 1]
    [] variant = "StartCoroutine" ->
         nodeDesc.m_sTargetTypeName
           \o " " \o CoroutineCreationModeNames[nodeDesc.m_CoroutineCreationMode + 1]

\* C8: Describe formatting.  For a TypeAndProperty record with type name T
\* and property name P, both non-empty, describe appends exactly T, ".", P
\* ("Foo.Bar" for Foo and Bar); for a Comparison record it appends exactly
\* one space and the operator's display name (" GreaterThan"); describe only
\* appends: the text already in the output string stays in front.
C8_DescribeFormat ==
  Described =>
    LET variant == PayloadVariant(call.tag)
        d       == call.nodeDesc
    IN  /\ (variant = "TypeAndProperty" /\ d.m_sTargetTypeName /= ""
              /\ d.m_sTargetPropertyName /= "") =>
             call.out_sResult
               = call.sBefore \o d.m_sTargetTypeName \o "." \o d.m_sTargetPropertyName
        /\ (variant = "TypeAndProperty" /\ d.m_sTargetTypeName = "Foo"
              /\ d.m_sTargetPropertyName = "Bar" /\ call.sBefore = "") =>
             call.out_sResult = "Foo.Bar"
        /\ variant = "Comparison" =>
             call.out_sResult
               = call.sBefore \o " " \o ComparisonOperatorNames[d.m_ComparisonOperator + 1]
        /\ (variant = "Comparison" /\ d.m_ComparisonOperator = 4 /\ call.sBefore = "") =>
             call.out_sResult = " GreaterThan"
        /\ Len(call.out_sResult) >= Len(call.sBefore)
        /\ call.out_sResult = call.sBefore \o Label(variant, d)

C8_Witness ==
  /\ Described
  /\ call.tag = Tag("Builtin_Compare")
  /\ call.nodeDesc.m_ComparisonOperator = 4
  /\ call.sBefore = "Node: "
  /\ call.out_sResult = "Node:  GreaterThan"

\* C9: Describe for StartCoroutine gives the target type name with the
\* creation mode's display name appended after it, and an empty optional
\* field adds nothing to a label: an empty type name adds no type text, an
\* empty property name adds neither the "." nor a name.
C9_DescribeOptionalFields ==
  Described =>
    LET variant == PayloadVariant(call.tag)
        d       == call.nodeDesc
        mode    == CoroutineCreationModeNames[d.m_CoroutineCreationMode + 1]
    IN  /\ variant = "StartCoroutine" =>
             call.out_sResult = call.sBefore \o d.m_sTargetTypeName \o " " \o mode
        /\ (variant = "StartCoroutine" /\ d.m_sTargetTypeName = "") =>
             call.out_sResult = call.sBefore \o " " \o mode
        /\ (variant = "TypeAndProperty" /\ d.m_sTargetPropertyName = "") =>
             call.out_sResult = call.sBefore \o d.m_sTargetTypeName
        /\ (variant \in {"Type", "TypeAndProperty"} /\ d.m_sTargetTypeName = ""
              /\ d.m_sTargetPropertyName = "") =>
             call.out_sResult = call.sBefore
        /\ variant = "Type" => call.out_sResult = call.sBefore \o d.m_sTargetTypeName

C9_Witness ==
  /\ Described
  /\ call.tag = Tag("Builtin_StartCoroutine")
  /\ call.nodeDesc.m_sTargetTypeName = ""
  /\ call.nodeDesc.m_CoroutineCreationMode = 2
  /\ call.sBefore = ""
  /\ call.out_sResult = " AllowOverlap"

----------------------------------------------------------------------------
\* the positions of the functions of the registered type sName called sMember
FunctionHits(sName, sMember) ==
  LET pType == CHOOSE i \in 1..Len(Registry) : Registry[i].name = sName
  IN  {k \in 1..Len(Registry[pType].funcs) : Registry[pType].funcs[k] = sMember}

PropertyPresent(sName, sMember) ==
  \E i \in 1..Len(Registry) :
    /\ Registry[i].name = sName
    /\ \E k \in 1..Len(Registry[i].props) : Registry[i].props[k] = sMember

\* C11: Member resolution.  TypeAndProperty deserialize resolves the member
\* name by equality of the whole name against the member list of the type
\* already resolved, and takes the first element of the list with that name
\* when several share it; for the tags ReflectedFunction and InplaceCoroutine
\* the list searched is the type's function list, so a name that is only a
\* property of the type does not resolve for them.
C11_MemberResolution ==
  (Loaded /\ PayloadVariant(call.tag) = "TypeAndProperty"
     /\ TypeRegistered(call.nodeDesc.m_sTargetTypeName)) =>
    LET sType == call.nodeDesc.m_sTargetTypeName
        sName == call.nodeDesc.m_sTargetPropertyName
        hits  == FunctionHits(sType, sName)
    IN  /\ call.tag \in {Tag("ReflectedFunction"), Tag("InplaceCoroutine")}
        /\ hits /= {} =>
             /\ call.result = EZ_SUCCESS
             /\ arena[Len(arena)].data.m_pProperty.list = "funcs"
             /\ arena[Len(arena)].data.m_pProperty.owner = arena[Len(arena)].data.m_pType
             /\ arena[Len(arena)].data.m_pProperty.index \in hits
             /\ \A k \in hits : arena[Len(arena)].data.m_pProperty.index <= k
        /\ hits = {} =>
             /\ call.result = EZ_FAILURE
             /\ arena = call.before.arena
        /\ (PropertyPresent(sType, sName) /\ hits = {}) => call.result = EZ_FAILURE

C11_Witness ==
  /\ Loaded
  /\ call.tag = Tag("InplaceCoroutine")
  /\ call.nodeDesc.m_sTargetTypeName = "Foo"
  /\ call.nodeDesc.m_sTargetPropertyName = "Bar"
  /\ FunctionHits("Foo", "Bar") = {2, 3}
  /\ call.result = EZ_SUCCESS
  /\ arena[Len(arena)].data.m_pProperty.index = 2

\* C12: Deserialize step order and early exit.  Every Deserialize reads the
\* stream fields in the order type name, member name, scalar fields, and
\* places the record exactly once, only after every read and lookup has
\* succeeded; when the type lookup fails the call returns at once, with the
\* type name consumed and the member name or creation mode that follows it
\* still in the stream.
C12_StepOrderAndEarlyExit ==
  Loaded =>
    LET variant == PayloadVariant(call.tag)
        d       == call.nodeDesc
        typeOk  == TypeRegistered(d.m_sTargetTypeName)
    IN  /\ call.result = EZ_SUCCESS =>
             /\ stream = <<>>
             /\ arena = Append(call.before.arena, arena[Len(arena)])
        /\ call.result = EZ_FAILURE =>
             /\ arena = call.before.arena
             /\ ref_node = NoUserData
        /\ (EmbedsType(variant) /\ ~typeOk) =>
             /\ call.result = EZ_FAILURE
             /\ Head(call.before.stream) = StringItem(d.m_sTargetTypeName)
             /\ stream = Tail(call.before.stream)
             /\ log = Append(call.before.log, "Unknown type '" \o d.m_sTargetTypeName \o "'")
             /\ variant = "Type" => stream = <<>>
             /\ variant = "TypeAndProperty" =>
                  stream = <<StringItem(d.m_sTargetPropertyName)>>
             /\ variant = "StartCoroutine" =>
                  stream = <<EnumItem(d.m_CoroutineCreationMode)>>
        /\ (variant = "TypeAndProperty" /\ typeOk /\ call.result = EZ_FAILURE) =>
             /\ stream = <<>>
             /\ Len(log) = Len(call.before.log) + 1

C12_Witness ==
  /\ Loaded
  /\ call.tag = Tag("ReflectedFunction")
  /\ call.nodeDesc.m_sTargetTypeName = "Nonexistent"
  /\ call.nodeDesc.m_sTargetPropertyName = "Bar"
  /\ call.result = EZ_FAILURE
  /\ stream = <<StringItem("Bar")>>
  /\ arena = call.before.arena

\* the payload variant a function of the table belongs to
OwnerOf(func) ==
  CASE func \in {"NodeUserData_Type::Serialize", "NodeUserData_Type::Deserialize",
                 "NodeUserData_Type::ToString"} -> "Type"
    [] func \in {"NodeUserData_TypeAndProperty::Serialize",
                 "NodeUserData_TypeAndProperty::Deserialize<true>",
                 "NodeUserData_TypeAndProperty::Deserialize<false>",
                 "NodeUserData_TypeAndProperty::ToString"} -> "TypeAndProperty"
    [] func \in {"NodeUserData_Comparison::Serialize", "NodeUserData_Comparison::Deserialize",
                 "NodeUserData_Comparison::ToString"} -> "Comparison"
    [] func \in {"NodeUserData_StartCoroutine::Serialize",
                 "NodeUserData_StartCoroutine::Deserialize",
                 "NodeUserData_StartCoroutine::ToString"} -> "StartCoroutine"
    [] OTHER -> "None"

SameVariant(ctx) ==
  /\ NoneNull(ctx)
  /\ OwnerOf(ctx.m_SerializeFunc) = OwnerOf(ctx.m_DeserializeFunc)
  /\ OwnerOf(ctx.m_SerializeFunc) = OwnerOf(ctx.m_ToStringFunc)

\* C13: Per-entry consistency of the table.  In every entry the three
\* operations are either all null or all of the same payload variant, so for
\* every tag with a payload the size and alignment the entry's serialize
\* reports are the size and alignment of the record the entry's deserialize
\* places into the arena, and the fields the deserialize reads are the
\* fields, in the same order, that the serialize wrote.
C13_EntryConsistency ==
  /\ \A t \in Tags : AllNull(GetUserDataContext(t)) \/ SameVariant(GetUserDataContext(t))
  /\ (Loaded /\ call.result = EZ_SUCCESS) =>
       LET written == InvokeSerialize(call.ctx.m_SerializeFunc, call.nodeDesc, <<>>)
           placed  == arena[Len(arena)]
       IN  /\ written.out_uiSize = placed.size
           /\ written.out_uiAlignment = AlignmentOf(placed.variant, ptrSize)
           /\ placed.variant = OwnerOf(call.ctx.m_SerializeFunc)
           /\ call.before.stream = written.stream
           /\ stream = <<>>

C13_Witness ==
  /\ Loaded
  /\ call.result = EZ_SUCCESS
  /\ call.tag = Tag("Builtin_StartCoroutine")
  /\ ptrSize = 8
  /\ arena[Len(arena)].size = 16
  /\ arena[Len(arena)].variant = "StartCoroutine"
  /\ Len(call.before.stream) = 2

====
